---- MODULE Spec2Model ----
(***************************************************************************)
(* fastlogging: the per-domain Logger, its writer thread, the coalescing   *)
(* timer, size-based rotation and the domain registry of                   *)
(* src/fastlogging/fastlogging.py, as a state machine.                     *)
(*                                                                         *)
(* Threads of the model: one thread calling the registry and teardown      *)
(* operations (a call blocked in Thread.join is held in `pend`), one       *)
(* thread calling log (a call that passed the `stopped` test and has not   *)
(* yet enqueued is held in `call`), one writer thread per file-owning      *)
(* logger (lg[l].thr) and one timer thread per armed Timer (lg[l].timer).  *)
(* file.write is taken to reach the file; file.flush is a no-op.           *)
(***************************************************************************)
EXTENDS Integers, Sequences, FiniteSets, TLC

VARIABLES
    useThreads,       \* Logger.useThreads
    sameMsgCountMax,  \* Logger.sameMsgCountMax
    domains,          \* the registry: domain -> logger id, or Absent
    lg,               \* every Logger object ever constructed, by identity
    queue,            \* the deque each Logger constructs (shared by reference)
    evtQueue,         \* the Event next to each deque
    evtRotate,        \* the rotate Event next to each deque
    disk,             \* path -> the files name, name.1, name.2, ...
    diskOK,           \* FALSE while file.write raises
    call,             \* the log call between its stopped test and its enqueue
    pend,             \* the registry/teardown call blocked in Thread.join
    clock,            \* time.time(): one tick per accepted log call
    accepted,         \* accepted[t]: the logger whose log call took time t and returned
    raised            \* the exception the step just taken raised to its caller, if any

vars == <<useThreads, sameMsgCountMax, domains, lg, queue, evtQueue, evtRotate,
          disk, diskOK, call, pend, clock, accepted, raised>>

---------------------------------------------------------------------------
\* Bounds of the model.
MaxLoggers == 2
MaxEntries == 3
LifeEntries == 2
MaxStops == 2
MsgLen == 1
MaxSizeN == 4
CoalesceMax == 2
MaxBackupCnt == 2
MaxRot == 1
MaxGated == 2
RunLen == 5
RunMax == 3
FileEntries == 5

\* Program constants.
PrefixLen == 9
FlushThreshold == 4096

\* The level constants imported on line 15, by rank.
DEBUG == 1
INFO == 2
WARNING == 3
ERROR == 4
FATAL == 5
EXCEPTION == 6
NOLOG == 7
Levels == {DEBUG, INFO, WARNING, ERROR, FATAL, EXCEPTION, NOLOG}
Methods == {"debug", "info", "warning", "error", "fatal", "critical", "exception"}
\* the level each convenience method tests and logs with
MethodLevel(meth) ==
    CASE meth = "debug" -> DEBUG
      [] meth = "info" -> INFO
      [] meth = "warning" -> WARNING
      [] meth = "error" -> ERROR
      [] meth = "fatal" -> FATAL
      [] meth = "critical" -> FATAL
      [] meth = "exception" -> EXCEPTION

Domains == {"root", "net"}
Paths == {"app.log"}
Msgs == {"a", "b"}
NoKey == "None"
Absent == 0

Entry(t, d, m) == [time |-> t, dom |-> d, msg |-> m]
NoEntry == Entry(0, "None", "None")
Sentinel == Entry(-1, "None", "None")

NoFile == [ex |-> FALSE, data |-> <<>>]
EmptyFile == [ex |-> TRUE, data |-> <<>>]
Slots == 0..MaxBackupCnt
NoCall == [lg |-> 0, msg |-> "None"]
NoPend == [op |-> "None", lg |-> 0, dom |-> "None", path |-> "None", maxSize |-> 0,
           backupCnt |-> 0, connect |-> FALSE]
PathOrNone == Paths \cup {"None"}
MaxSizes == {0, MaxSizeN}
BackupCnts == 0..MaxBackupCnt
\* the (maxSize, backupCnt) pairs Logger.__init__ accepts
Configs == {c \in MaxSizes \X BackupCnts : ~(c[1] > 0 /\ c[2] = 0)}
NoRaise == [op |-> "None", lg |-> 0, exc |-> "None"]

RECURSIVE SumSizes(_)
SumSizes(s) == IF s = <<>> THEN 0 ELSE Head(s).size + SumSizes(Tail(s))

World == [lg |-> lg, queue |-> queue, evtQueue |-> evtQueue, evtRotate |-> evtRotate,
          disk |-> disk, domains |-> domains, exc |-> "None"]

SetWorld(w) ==
    /\ lg' = w.lg
    /\ queue' = w.queue
    /\ evtQueue' = w.evtQueue
    /\ evtRotate' = w.evtRotate
    /\ disk' = w.disk
    /\ domains' = w.domains

---------------------------------------------------------------------------
\* message = "%s: %s: %s" % (sTime, LOG2SYM[level], msg), with "%d times: " in front
FormatLine(key, entry, cnt) ==
    LET n == IF key # NoKey /\ cnt > 0 THEN cnt ELSE 0
    IN [time |-> entry.time, dom |-> entry.dom, msg |-> entry.msg, cnt |-> n,
        size |-> MsgLen + (IF n > 0 THEN PrefixLen ELSE 0) + 1]

\* file.write(data) through the handle of logger l: the bytes go to the inode the
\* handle was opened on, wherever a rename has moved it since
FileWrite(w, l, data) ==
    LET s == w.lg[l]
    IN IF s.ino \in Slots
       THEN [w EXCEPT !.disk[s.pathName][s.ino + 1].data = @ \o data]
       ELSE w

\* os.replace(name.src, name.dst) and what it does to the handles open on either
Replace(w, p, src, dst) ==
    [w EXCEPT
        !.disk[p] = [@ EXCEPT ![dst + 1] = w.disk[p][src + 1], ![src + 1] = NoFile],
        !.lg = [i \in DOMAIN w.lg |->
                  IF w.lg[i].pathName = p /\ w.lg[i].F = "open"
                  THEN [w.lg[i] EXCEPT !.ino = IF @ = src THEN dst
                                               ELSE IF @ = dst THEN -1 ELSE @]
                  ELSE w.lg[i]]]

\* open(pathName, "a"); self.pos = self.F.tell() is set by the caller
OpenAppend(w, l) ==
    LET p == w.lg[l].pathName
    IN [w EXCEPT !.disk[p][1] = IF @.ex THEN @ ELSE EmptyFile,
                 !.lg[l].F = "open",
                 !.lg[l].ino = 0,
                 !.lg[l].nopen = @ + 1]

WritePending(w, l) ==
    LET s == w.lg[l]
    IN IF s.buf = <<>> THEN w
       ELSE LET w1 == [w EXCEPT !.lg[l].buf = <<>>, !.lg[l].size = 0]
            IN IF diskOK /\ s.F = "open" THEN FileWrite(w1, l, s.buf)
               ELSE [w1 EXCEPT !.exc = "OSError",
                               !.lg[l].torn = @ \/ s.F = "closed"]

RECURSIVE ShiftBackups(_, _, _)
ShiftBackups(w, p, cnt) ==
    IF cnt < 2 THEN w
    ELSE ShiftBackups(IF w.disk[p][cnt].ex THEN Replace(w, p, cnt - 1, cnt) ELSE w,
                      p, cnt - 1)

\* Logger.__rotate, lines 226-228: the pending lines written, the file closed
RotateHead(w, l) ==
    LET w1 == WritePending(w, l)
    IN IF w1.exc # "None" THEN w1
       ELSE [w1 EXCEPT !.lg[l].F = "closed", !.lg[l].ino = -1]

\* Logger.__rotate, lines 229-251: the backups shifted, the file renamed and reopened
RotateTail(w, l) ==
    LET p == w.lg[l].pathName
        w2 == [w EXCEPT !.lg[l].pos = 0, !.lg[l].nrot = @ + 1]
        w3 == ShiftBackups(w2, p, w2.lg[l].backupCnt)
        w4 == Replace(w3, p, 0, 1)
    IN OpenAppend(w4, l)

Rotate(w, l) ==
    LET w1 == RotateHead(w, l)
    IN IF w1.exc # "None" THEN w1 ELSE RotateTail(w1, l)

---------------------------------------------------------------------------
\* Logger._logMessage, the try block: the result says whether line 301 returned
FilePart(w, l, line) ==
    LET s == w.lg[l]
    IN IF s.F = "None" THEN [w |-> w, early |-> FALSE]
       ELSE LET w1 == [w EXCEPT !.lg[l].buf = Append(@, line),
                                !.lg[l].size = @ + line.size]
            IN IF s.maxSize = 0
               THEN IF w1.lg[l].size >= FlushThreshold \/ ~useThreads
                    THEN LET w2 == WritePending(w1, l)
                         IN [w |-> w2, early |-> w2.exc = "None"]
                    ELSE [w |-> w1, early |-> TRUE]
               ELSE LET w2 == [w1 EXCEPT !.lg[l].pos = @ + line.size]
                    IN IF w2.lg[l].pos >= s.maxSize
                       THEN IF useThreads
                            THEN [w |-> [w2 EXCEPT !.evtRotate[s.common] = TRUE],
                                  early |-> FALSE]
                            ELSE [w |-> Rotate(w2, l), early |-> FALSE]
                       ELSE [w |-> w2, early |-> FALSE]

\* self.client.log(entry)
Ship(w, l, entry) ==
    IF w.lg[l].client THEN [w EXCEPT !.lg[l].sent = Append(@, entry.time)] ELSE w

LogMessage(w, l, key, entry, cnt) ==
    LET line == FormatLine(key, entry, cnt)
        w0 == IF w.lg[l].client THEN [w EXCEPT !.lg[l].done = Append(@, entry.time)]
              ELSE w
        w1 == IF key # NoKey
              THEN [w0 EXCEPT !.lg[l].lastKey = key, !.lg[l].lastCnt = 1,
                              !.lg[l].lastEntry = entry]
              ELSE w0
        f == FilePart(w1, l, line)
    IN IF f.early THEN f.w
       ELSE Ship([f.w EXCEPT !.exc = "None"], l, entry)

\* Logger.__logEntry, with cbMessageKey None: the key is the message text
LogEntry(w, l, entry) ==
    LET key == entry.msg
        s == w.lg[l]
    IN IF key = s.lastKey /\ s.lastCnt < sameMsgCountMax
       THEN [w EXCEPT !.lg[l].lastCnt = @ + 1,
                      !.lg[l].lastEntry = entry,
                      !.lg[l].timer = IF @ = "None" THEN "armed" ELSE @,
                      !.lg[l].timerArg = IF s.timer = "None" THEN entry ELSE @]
       ELSE IF s.timer = "None"
       THEN LogMessage(w, l, key, entry, 0)
       ELSE LET w1 == [w EXCEPT !.lg[l].timer = "None", !.lg[l].timerArg = NoEntry]
                w2 == LogMessage(w1, l, key, s.lastEntry, s.lastCnt)
            IN LogMessage(w2, l, key, entry, 0)

\* what __log and __logThread do with an entry
Process(w, l, entry) ==
    IF sameMsgCountMax > 0 THEN LogEntry(w, l, entry)
    ELSE LogMessage(w, l, NoKey, entry, 0)

\* Logger.stop, lines 205-209
StopTail(w, l, now) ==
    LET s == w.lg[l]
        w2 == IF now THEN [w EXCEPT !.queue[s.common] = <<>>] ELSE w
        gone == {w.queue[s.common][i].time : i \in 1..Len(w.queue[s.common])} \ {-1}
    IN [w2 EXCEPT !.queue[s.common] = Append(@, Sentinel),
                  !.lg[l].cleared = IF now THEN @ \cup gone ELSE @,
                  !.evtQueue[s.common] = TRUE,
                  !.lg[l].stopped = TRUE,
                  !.lg[l].nstop = @ + 1]

\* Logger.stop
StopLogger(w, l, now) ==
    LET s == w.lg[l]
        w1 == IF s.timer # "None"
              THEN LogMessage([w EXCEPT !.lg[l].timer = "None",
                                        !.lg[l].timerArg = NoEntry],
                              l, s.lastKey, s.lastEntry, s.lastCnt)
              ELSE w
    IN StopTail(w1, l, now)

\* Logger.join, once Thread.join has returned
JoinLogger(w, l) ==
    LET d == w.lg[l].domain
        w1 == [w EXCEPT !.lg[l].thrLogger = FALSE]
    IN IF w1.domains[d] = Absent THEN [w1 EXCEPT !.exc = "KeyError"]
       ELSE [w1 EXCEPT !.domains[d] = Absent]

\* Thread.join returns at once: no thread object, or the thread has ended
ThreadOver(l) == ~lg[l].thrLogger \/ lg[l].thr \in {"done", "dead"}

Registered(w) == {w.domains[d] : d \in Domains} \ {Absent}

\* Logger.__init__ with the test of line 94 turned round: maxSize zero, backupCnt not
NewLoggerZeroSize(w, d, p, ms, bc, c) ==
    IF ms < 0 \/ bc < 0 \/ (ms = 0 /\ bc # 0)
    THEN [w EXCEPT !.exc = "ValueError"]
    ELSE [w EXCEPT !.lg = Append(@, [domain |-> d, pathName |-> "None", F |-> "None",
                       ino |-> -1, buf |-> <<>>, size |-> 0, pos |-> 0, stopped |-> FALSE,
                       thrLogger |-> FALSE, thr |-> "None", timer |-> "None",
                       timerArg |-> NoEntry, lastKey |-> NoKey, lastCnt |-> 1,
                       lastEntry |-> NoEntry, common |-> Len(w.lg) + 1, maxSize |-> ms,
                       backupCnt |-> bc, client |-> c, sent |-> <<>>, done |-> <<>>,
                       nstop |-> 0, nopen |-> 0, nrot |-> 0, nclose |-> 0,
                       cleared |-> {}, replaced |-> FALSE, shut |-> FALSE,
                       level |-> NOLOG, ngated |-> 0,
                       emit |-> {}, stopPc |-> "None", rotPc |-> "None",
                       torn |-> FALSE]),
                   !.queue = Append(@, <<>>),
                   !.evtQueue = Append(@, FALSE),
                   !.evtRotate = Append(@, FALSE),
                   !.domains[d] = Len(w.lg) + 1]

\* Logger.__init__
NewLogger(w, d, p, ms, bc, c) ==
    LET l == Len(w.lg) + 1
        same == {i \in Registered(w) : p # "None" /\ w.lg[i].pathName = p}
        owner == IF same = {} THEN 0 ELSE CHOOSE i \in same : TRUE
        s0 == [domain |-> d, pathName |-> p, F |-> "None", ino |-> -1, buf |-> <<>>,
               size |-> 0, pos |-> 0, stopped |-> FALSE, thrLogger |-> FALSE,
               thr |-> "None", timer |-> "None", timerArg |-> NoEntry,
               lastKey |-> NoKey, lastCnt |-> 1, lastEntry |-> NoEntry,
               common |-> IF owner = 0 THEN l ELSE w.lg[owner].common,
               maxSize |-> IF owner = 0 THEN ms ELSE w.lg[owner].maxSize,
               backupCnt |-> IF owner = 0 THEN bc ELSE w.lg[owner].backupCnt,
               client |-> c, sent |-> <<>>, done |-> <<>>,
               nstop |-> 0, nopen |-> 0, nrot |-> 0, nclose |-> 0,
               cleared |-> {}, replaced |-> FALSE, shut |-> FALSE,
                       level |-> NOLOG, ngated |-> 0,
                       emit |-> {}, stopPc |-> "None", rotPc |-> "None",
                       torn |-> FALSE]
        w1 == [w EXCEPT !.lg = Append(@, s0),
                        !.queue = Append(@, <<>>),
                        !.evtQueue = Append(@, FALSE),
                        !.evtRotate = Append(@, FALSE)]
        w2 == IF p # "None" /\ owner = 0
              THEN LET o == OpenAppend(w1, l)
                   IN [o EXCEPT !.lg[l].pos = SumSizes(o.disk[p][1].data),
                                !.lg[l].thrLogger = useThreads,
                                !.lg[l].thr = IF useThreads THEN "run" ELSE "None"]
              ELSE w1
    IN IF ms < 0 \/ bc < 0 \/ (ms > 0 /\ bc = 0)
       THEN [w EXCEPT !.exc = "ValueError"]
       ELSE [w2 EXCEPT !.domains[d] = l]

---------------------------------------------------------------------------
InitWith(modes, counts) ==
    /\ useThreads \in modes
    /\ sameMsgCountMax \in counts
    /\ domains = [d \in Domains |-> Absent]
    /\ lg = <<>>
    /\ queue = <<>>
    /\ evtQueue = <<>>
    /\ evtRotate = <<>>
    /\ disk = [p \in Paths |-> [i \in 1..(MaxBackupCnt + 1) |-> NoFile]]
    /\ diskOK = TRUE
    /\ call = NoCall
    /\ pend = NoPend
    /\ clock = 0
    /\ accepted = <<>>
    /\ raised = NoRaise

Init == InitWith(BOOLEAN, {0})

\* what the step's call raised to its caller
Raise(op, l, exc) == IF exc = "None" THEN NoRaise ELSE [op |-> op, lg |-> l, exc |-> exc]

\* GetLogger from "del domains[domain]" on: the new Logger is constructed and registered
Construct(op, w, d, p, ms, bc, c) ==
    LET w1 == NewLogger(w, d, p, ms, bc, c)
    IN /\ SetWorld(w1)
       /\ raised' = Raise(op, 0, w1.exc)

\* GetLogger after logger.stop(), once Thread.join has returned
Replaced(op, w, d, p, ms, bc, c, old) ==
    LET w1 == JoinLogger(w, old)
    IN IF w1.exc # "None" \/ w1.domains[d] = Absent
       THEN /\ SetWorld(w1)
            /\ raised' = Raise(op, old, "KeyError")
       ELSE Construct(op, [w1 EXCEPT !.domains[d] = Absent], d, p, ms, bc, c)

\* the logger registered under d is about to be replaced
Replacing(w, d) ==
    IF w.domains[d] = Absent THEN w ELSE [w EXCEPT !.lg[w.domains[d]].replaced = TRUE]

\* LogInit: the class attributes are set, domains[domain] = None, then GetLogger
LogInit(d, p, ms, bc, c) ==
    /\ pend = NoPend
    /\ Len(lg) < MaxLoggers
    /\ Construct("LogInit", [Replacing(World, d) EXCEPT !.domains[d] = Absent],
                 d, p, ms, bc, c)
    /\ UNCHANGED <<useThreads, sameMsgCountMax, diskOK, call, pend, clock, accepted>>

GetLogger(d, p, ms, bc, c) ==
    /\ pend = NoPend
    /\ Len(lg) < MaxLoggers
    /\ IF \A x \in Domains : domains[x] = Absent
       THEN /\ raised' = Raise("GetLogger", 0, "ValueError")
            /\ UNCHANGED <<domains, lg, queue, evtQueue, evtRotate, disk, pend>>
       ELSE IF domains[d] # Absent
       THEN LET old == domains[d]
                w1 == StopLogger(Replacing(World, d), old, FALSE)
            IN /\ lg[old].nstop < MaxStops
               /\ IF ThreadOver(old)
                  THEN /\ Replaced("GetLogger", w1, d, p, ms, bc, c, old)
                       /\ pend' = pend
                  ELSE /\ SetWorld(w1)
                       /\ pend' = [op |-> "GetLogger", lg |-> old, dom |-> d, path |-> p,
                                   maxSize |-> ms, backupCnt |-> bc, connect |-> c]
                       /\ raised' = NoRaise
       ELSE /\ Construct("GetLogger", World, d, p, ms, bc, c)
            /\ pend' = pend
    /\ UNCHANGED <<useThreads, sameMsgCountMax, diskOK, call, clock, accepted>>

Stop(l, now) ==
    /\ pend = NoPend
    /\ l \in DOMAIN lg
    /\ lg[l].nstop < MaxStops
    /\ LET w1 == StopLogger(World, l, now)
       IN /\ SetWorld(w1)
          /\ raised' = Raise("stop", l, w1.exc)
    /\ UNCHANGED <<useThreads, sameMsgCountMax, diskOK, call, pend, clock, accepted>>

Join(l) ==
    /\ pend = NoPend
    /\ l \in DOMAIN lg
    /\ ThreadOver(l)
    /\ LET w1 == JoinLogger(World, l)
       IN /\ SetWorld(w1)
          /\ raised' = Raise("join", l, w1.exc)
    /\ UNCHANGED <<useThreads, sameMsgCountMax, diskOK, call, pend, clock, accepted>>

\* Logger.shutdown from self.join() on, once Thread.join has returned
ShutdownJoin(w, l) ==
    LET w1 == JoinLogger(w, l)
    IN /\ SetWorld(IF w1.exc = "None" THEN [w1 EXCEPT !.lg[l].shut = TRUE] ELSE w1)
       /\ raised' = Raise("shutdown", l, w1.exc)

\* Logger.shutdown: stop(now), then join()
Shutdown(l, now) ==
    /\ pend = NoPend
    /\ l \in DOMAIN lg
    /\ lg[l].nstop < MaxStops
    /\ LET w1 == StopLogger(World, l, now)
       IN IF ThreadOver(l)
          THEN /\ ShutdownJoin(w1, l)
               /\ pend' = pend
          ELSE /\ SetWorld(w1)
               /\ pend' = [NoPend EXCEPT !.op = "shutdown", !.lg = l]
               /\ raised' = NoRaise
    /\ UNCHANGED <<useThreads, sameMsgCountMax, diskOK, call, clock, accepted>>

\* Thread.join returns in the call that waits in it
PendJoin ==
    /\ pend # NoPend
    /\ ThreadOver(pend.lg)
    /\ IF pend.op = "shutdown"
       THEN ShutdownJoin(World, pend.lg)
       ELSE Replaced("GetLogger", World, pend.dom, pend.path, pend.maxSize,
                     pend.backupCnt, pend.connect, pend.lg)
    /\ pend' = NoPend
    /\ UNCHANGED <<useThreads, sameMsgCountMax, diskOK, call, clock, accepted>>

\* Logger.rotate
RotateCall(l) ==
    /\ pend = NoPend
    /\ l \in DOMAIN lg
    /\ lg[l].nrot < MaxRot
    /\ LET q == lg[l].common
           w1 == IF lg[l].F = "None" THEN World
                 ELSE IF useThreads
                 THEN [World EXCEPT !.evtRotate[q] = TRUE, !.evtQueue[q] = TRUE]
                 ELSE Rotate(World, l)
       IN /\ SetWorld(w1)
          /\ raised' = Raise("rotate", l, w1.exc)
    /\ UNCHANGED <<useThreads, sameMsgCountMax, diskOK, call, pend, clock, accepted>>

\* Logger.__log up to the choice of path; the inline path runs to its end.
\* n bounds the number of accepted calls.
LogCall(l, m, n) ==
    /\ call = NoCall
    /\ l \in DOMAIN lg
    /\ clock < n
    /\ IF lg[l].stopped
       THEN /\ raised' = Raise("log", l, "RuntimeError")
            /\ UNCHANGED <<domains, lg, queue, evtQueue, evtRotate, disk, call, clock,
                           accepted>>
       ELSE IF ~useThreads \/ ~lg[l].thrLogger
       THEN LET w1 == Process(World, l, Entry(clock + 1, lg[l].domain, m))
            IN /\ SetWorld(w1)
               /\ clock' = clock + 1
               /\ accepted' = Append(accepted, l)
               /\ raised' = Raise("log", l, w1.exc)
               /\ call' = call
       ELSE /\ call' = [lg |-> l, msg |-> m]
            /\ raised' = NoRaise
            /\ UNCHANGED <<domains, lg, queue, evtQueue, evtRotate, disk, clock, accepted>>
    /\ UNCHANGED <<useThreads, sameMsgCountMax, diskOK, pend>>

\* Logger.setLevel
SetLevel(l, level) ==
    /\ l \in DOMAIN lg
    /\ lg' = [lg EXCEPT ![l].level = level]
    /\ raised' = NoRaise
    /\ UNCHANGED <<useThreads, sameMsgCountMax, domains, queue, evtQueue, evtRotate, disk,
                   diskOK, call, pend, clock, accepted>>

\* the test of debug/info/.../exception read the wrong way round
GateAbove(l, meth) == lg[l].level >= MethodLevel(meth)

\* the test of debug/info/warning/error/fatal/critical/exception
Gate(l, meth) == lg[l].level <= MethodLevel(meth)

\* Logger.debug/info/warning/error/fatal/critical/exception: the gate, then __log
LevelCall(l, meth, m, n) ==
    /\ l \in DOMAIN lg
    /\ IF Gate(l, meth)
       THEN LogCall(l, m, n)
       ELSE /\ lg[l].ngated < MaxGated
            /\ lg' = [lg EXCEPT ![l].ngated = @ + 1]
            /\ raised' = NoRaise
            /\ UNCHANGED <<useThreads, sameMsgCountMax, domains, queue, evtQueue,
                           evtRotate, disk, diskOK, call, pend, clock, accepted>>

\* Logger.__log, lines 164-165
LogEnqueue ==
    /\ call # NoCall
    /\ LET l == call.lg
           q == lg[l].common
       IN /\ queue' = [queue EXCEPT ![q] = Append(@, Entry(clock + 1, lg[l].domain, call.msg))]
          /\ evtQueue' = [evtQueue EXCEPT ![q] = TRUE]
          /\ accepted' = Append(accepted, l)
    /\ clock' = clock + 1
    /\ call' = NoCall
    /\ raised' = NoRaise
    /\ UNCHANGED <<useThreads, sameMsgCountMax, domains, lg, evtRotate, disk, diskOK, pend>>

\* the sentinel branch without its break and without self.F = None
WriterSentinelGoesOn(w, l) ==
    LET s == w.lg[l]
        w1 == IF s.F # "None" THEN WritePending(w, l) ELSE w
    IN [w1 EXCEPT !.lg[l].nclose = IF s.F # "None" THEN @ + 1 ELSE @]

\* Logger.__logThread, lines 353-361: the stop sentinel
WriterSentinel(w, l) ==
    LET s == w.lg[l]
        w1 == IF s.F # "None" THEN WritePending(w, l) ELSE w
    IN IF w1.exc # "None" THEN [w1 EXCEPT !.lg[l].thr = "dead"]
       ELSE [w1 EXCEPT !.lg[l].thr = "done",
                       !.lg[l].F = "None",
                       !.lg[l].ino = -1,
                       !.lg[l].nclose = IF s.F # "None" THEN @ + 1 ELSE @]

\* Logger.__logThread: one turn of the loop with an entry in the queue
WriterPop(l) ==
    /\ l \in DOMAIN lg
    /\ lg[l].thr = "run"
    /\ queue[l] # <<>>
    /\ LET entry == Head(queue[l])
           w0 == [World EXCEPT !.queue[l] = Tail(@)]
       IN IF entry = Sentinel
          THEN SetWorld([WriterSentinel(w0, l) EXCEPT !.exc = "None"])
          ELSE SetWorld(Process(w0, l, entry))
    /\ raised' = NoRaise
    /\ UNCHANGED <<useThreads, sameMsgCountMax, diskOK, call, pend, clock, accepted>>

\* Logger.__logThread, lines 362-366: IndexError, up to evtQueue.wait()
WriterIdle(l) ==
    /\ l \in DOMAIN lg
    /\ lg[l].thr = "run"
    /\ queue[l] = <<>>
    /\ LET w1 == IF lg[l].F # "None" THEN WritePending(World, l) ELSE World
       IN SetWorld([w1 EXCEPT !.lg[l].thr = IF w1.exc # "None" THEN "dead" ELSE "wait",
                              !.exc = "None"])
    /\ raised' = NoRaise
    /\ UNCHANGED <<useThreads, sameMsgCountMax, diskOK, call, pend, clock, accepted>>

\* Logger.__logThread, lines 366-371: evtQueue.wait() returns
WriterWake(l) ==
    /\ l \in DOMAIN lg
    /\ lg[l].thr = "wait"
    /\ evtQueue[l]
    /\ LET w0 == [World EXCEPT !.evtQueue[l] = FALSE]
           w1 == IF evtRotate[l]
                 THEN Rotate([w0 EXCEPT !.evtRotate[l] = FALSE], l)
                 ELSE w0
       IN SetWorld([w1 EXCEPT !.lg[l].thr = IF w1.exc # "None" THEN "dead" ELSE "run",
                              !.exc = "None"])
    /\ raised' = NoRaise
    /\ UNCHANGED <<useThreads, sameMsgCountMax, diskOK, call, pend, clock, accepted>>

\* the Timer of __logEntry runs its callback: self._logMessage(key, entry, 0)
TimerFire(l) ==
    /\ l \in DOMAIN lg
    /\ lg[l].timer = "armed"
    /\ SetWorld(LogMessage([World EXCEPT !.lg[l].timer = "fired"], l,
                           lg[l].timerArg.msg, lg[l].timerArg, 0))
    /\ raised' = NoRaise
    /\ UNCHANGED <<useThreads, sameMsgCountMax, diskOK, call, pend, clock, accepted>>

---------------------------------------------------------------------------
\* The same handlers in smaller steps: lg[l].emit holds the threads that are
\* inside _logMessage of logger l, lg[l].stopPc the place of the caller in stop().

\* __logEntry goes on to _logMessage with this entry, rather than only counting it
Emits(l, entry) ==
    ~(sameMsgCountMax > 0 /\ entry.msg = lg[l].lastKey /\ lg[l].lastCnt < sameMsgCountMax)

\* __logThread takes an entry and runs it up to the return of _logMessage's last
\* statement; the cancel branch of __logEntry first waits in Timer.join
WriterTake(l) ==
    /\ l \in DOMAIN lg
    /\ lg[l].thr = "run"
    /\ "writer" \notin lg[l].emit
    /\ queue[l] # <<>>
    /\ Head(queue[l]) # Sentinel
    /\ LET entry == Head(queue[l])
           w0 == [World EXCEPT !.queue[l] = Tail(@)]
       IN /\ (Emits(l, entry) /\ sameMsgCountMax > 0 /\ lg[l].timer # "None")
             => "timer" \notin lg[l].emit
          /\ SetWorld([Process(w0, l, entry) EXCEPT
                          !.lg[l].emit = IF Emits(l, entry) THEN @ \cup {"writer"} ELSE @])
    /\ raised' = NoRaise
    /\ UNCHANGED <<useThreads, sameMsgCountMax, diskOK, call, pend, clock, accepted>>

\* _logMessage returns to the writer
WriterLeave(l) ==
    /\ l \in DOMAIN lg
    /\ "writer" \in lg[l].emit
    /\ lg' = [lg EXCEPT ![l].emit = @ \ {"writer"}]
    /\ raised' = NoRaise
    /\ UNCHANGED <<useThreads, sameMsgCountMax, domains, queue, evtQueue, evtRotate, disk,
                   diskOK, call, pend, clock, accepted>>

\* the Timer thread calls self._logMessage(key, entry, 0)
TimerEnter(l) ==
    /\ l \in DOMAIN lg
    /\ lg[l].timer = "armed"
    /\ SetWorld(LogMessage([World EXCEPT !.lg[l].timer = "fired",
                                         !.lg[l].emit = @ \cup {"timer"}], l,
                           lg[l].timerArg.msg, lg[l].timerArg, 0))
    /\ raised' = NoRaise
    /\ UNCHANGED <<useThreads, sameMsgCountMax, diskOK, call, pend, clock, accepted>>

\* the callback returns and the Timer thread ends
TimerLeave(l) ==
    /\ l \in DOMAIN lg
    /\ "timer" \in lg[l].emit
    /\ lg' = [lg EXCEPT ![l].emit = @ \ {"timer"}]
    /\ raised' = NoRaise
    /\ UNCHANGED <<useThreads, sameMsgCountMax, domains, queue, evtQueue, evtRotate, disk,
                   diskOK, call, pend, clock, accepted>>

\* Logger.stop(), line 200: without a timer the call runs to its end
StopBegin(l) ==
    /\ pend = NoPend
    /\ l \in DOMAIN lg
    /\ lg[l].nstop < MaxStops
    /\ lg[l].stopPc = "None"
    /\ LET w1 == IF lg[l].timer = "None" THEN StopTail(World, l, FALSE)
                 ELSE [World EXCEPT !.lg[l].stopPc = "join"]
       IN SetWorld(w1)
    /\ raised' = NoRaise
    /\ UNCHANGED <<useThreads, sameMsgCountMax, diskOK, call, pend, clock, accepted>>

\* Logger.stop(), lines 201-204: cancel, Timer.join, the handle cleared and
\* _logMessage entered; None.cancel() when the writer has cleared the handle
StopJoined(l) ==
    /\ l \in DOMAIN lg
    /\ lg[l].stopPc = "join"
    /\ "timer" \notin lg[l].emit
    /\ IF lg[l].timer = "None"
       THEN /\ SetWorld([World EXCEPT !.lg[l].stopPc = "None"])
            /\ raised' = Raise("stop", l, "AttributeError")
       ELSE /\ SetWorld(LogMessage([World EXCEPT !.lg[l].timer = "None",
                                                 !.lg[l].timerArg = NoEntry,
                                                 !.lg[l].stopPc = "emit",
                                                 !.lg[l].emit = @ \cup {"caller"}],
                                   l, lg[l].lastKey, lg[l].lastEntry, lg[l].lastCnt))
            /\ raised' = NoRaise
    /\ UNCHANGED <<useThreads, sameMsgCountMax, diskOK, call, pend, clock, accepted>>

\* Logger.stop(), lines 205-209: _logMessage has returned
StopEnd(l) ==
    /\ l \in DOMAIN lg
    /\ lg[l].stopPc = "emit"
    /\ SetWorld(StopTail([World EXCEPT !.lg[l].stopPc = "None",
                                       !.lg[l].emit = @ \ {"caller"}], l, FALSE))
    /\ raised' = NoRaise
    /\ UNCHANGED <<useThreads, sameMsgCountMax, diskOK, call, pend, clock, accepted>>

\* the writer is not inside _logMessage
WriterFree(l) == l \in DOMAIN lg /\ "writer" \notin lg[l].emit

\* A synchronous log call whose line brings pos to maxSize, up to the close of
\* the file in __rotate (lines 293-308, 226-228); lg[l].rotPc holds the place of
\* the thread that is inside __rotate
LogRotateClose(l, m, n) ==
    /\ ~useThreads
    /\ l \in DOMAIN lg
    /\ clock < n
    /\ ~lg[l].stopped
    /\ lg[l].rotPc = "None"
    /\ lg[l].F = "open"
    /\ lg[l].maxSize > 0
    /\ LET line == FormatLine(NoKey, Entry(clock + 1, lg[l].domain, m), 0)
           w1 == [World EXCEPT !.lg[l].buf = Append(@, line),
                               !.lg[l].size = @ + line.size,
                               !.lg[l].pos = @ + line.size]
           w2 == RotateHead(w1, l)
       IN /\ w1.lg[l].pos >= lg[l].maxSize
          /\ w2.exc = "None"
          /\ SetWorld([w2 EXCEPT !.lg[l].rotPc = "closed"])
    /\ clock' = clock + 1
    /\ accepted' = Append(accepted, l)
    /\ raised' = NoRaise
    /\ UNCHANGED <<useThreads, sameMsgCountMax, diskOK, call, pend>>

\* rotate() in synchronous mode, up to the close of the file in __rotate
RotateCallClose(l) ==
    /\ ~useThreads
    /\ pend = NoPend
    /\ l \in DOMAIN lg
    /\ lg[l].nrot < MaxRot
    /\ lg[l].rotPc = "None"
    /\ lg[l].F = "open"
    /\ LET w1 == RotateHead(World, l)
       IN /\ w1.exc = "None"
          /\ SetWorld([w1 EXCEPT !.lg[l].rotPc = "closed"])
    /\ raised' = NoRaise
    /\ UNCHANGED <<useThreads, sameMsgCountMax, diskOK, call, pend, clock, accepted>>

\* the thread inside __rotate goes on from line 229 to the reopen, and returns
RotateReopen(l) ==
    /\ l \in DOMAIN lg
    /\ lg[l].rotPc = "closed"
    /\ SetWorld(RotateTail([World EXCEPT !.lg[l].rotPc = "None"], l))
    /\ raised' = NoRaise
    /\ UNCHANGED <<useThreads, sameMsgCountMax, diskOK, call, pend, clock, accepted>>

\* file.write starts to raise (disk full, I/O error), and stops doing so
DiskFails ==
    /\ diskOK
    /\ lg # <<>>
    /\ diskOK' = FALSE
    /\ raised' = NoRaise
    /\ UNCHANGED <<useThreads, sameMsgCountMax, domains, lg, queue, evtQueue, evtRotate,
                   disk, call, pend, clock, accepted>>

DiskRecovers ==
    /\ ~diskOK
    /\ diskOK' = TRUE
    /\ raised' = NoRaise
    /\ UNCHANGED <<useThreads, sameMsgCountMax, domains, lg, queue, evtQueue, evtRotate,
                   disk, call, pend, clock, accepted>>

Loggers == 1..MaxLoggers

---------------------------------------------------------------------------
\* The registry and the life of its loggers, coalescing off.
Next ==
    \/ \E d \in Domains, p \in Paths : LogInit(d, p, 0, 0, FALSE)
    \/ \E d \in Domains, p \in Paths : GetLogger(d, p, 0, 0, FALSE)
    \/ \E l \in Loggers, now \in BOOLEAN : Stop(l, now)
    \/ \E l \in Loggers : Join(l)
    \/ \E l \in Loggers, now \in BOOLEAN : Shutdown(l, now)
    \/ PendJoin
    \/ \E l \in Loggers : LogCall(l, "a", LifeEntries)
    \/ LogEnqueue
    \/ \E l \in Loggers : WriterPop(l)
    \/ \E l \in Loggers : WriterIdle(l)
    \/ \E l \in Loggers : WriterWake(l)

Spec == Init /\ [][Next]_vars

\* One file-owning logger and its teardown, coalescing off or on.
InitStop == InitWith(BOOLEAN, {0, CoalesceMax})

NextStop ==
    \/ \E p \in Paths, c \in {<<0, 0>>, <<MaxSizeN, 1>>} :
          lg = <<>> /\ LogInit("root", p, c[1], c[2], FALSE)
    \/ \E l \in Loggers, now \in BOOLEAN : Stop(l, now)
    \/ \E l \in Loggers : Join(l)
    \/ \E l \in Loggers, now \in BOOLEAN : Shutdown(l, now)
    \/ PendJoin
    \/ \E l \in Loggers, m \in Msgs : LogCall(l, m, MaxEntries)
    \/ LogEnqueue
    \/ \E l \in Loggers : WriterPop(l)
    \/ \E l \in Loggers : WriterIdle(l)
    \/ \E l \in Loggers : WriterWake(l)
    \/ \E l \in Loggers : TimerFire(l)

SpecStop == InitStop /\ [][NextStop]_vars

\* One logger writing, rotating and shipping, coalescing off.
NextFile ==
    \/ \E p \in PathOrNone, c \in {<<0, 0>>, <<MaxSizeN, 1>>, <<MaxSizeN, 2>>}, k \in BOOLEAN :
          lg = <<>> /\ LogInit("root", p, c[1], c[2], k)
    \/ \E l \in Loggers : RotateCall(l)
    \/ \E l \in Loggers : LogCall(l, "a", FileEntries)
    \/ LogEnqueue
    \/ \E l \in Loggers : WriterPop(l)
    \/ \E l \in Loggers : WriterIdle(l)
    \/ \E l \in Loggers : WriterWake(l)

SpecFile == Init /\ [][NextFile]_vars

\* One logger and a run of identical messages, sameMsgCountMax = RunMax.
InitRun == InitWith(BOOLEAN, {RunMax})

NextRun ==
    \/ \E p \in Paths : lg = <<>> /\ LogInit("root", p, 0, 0, FALSE)
    \/ \E l \in Loggers : LogCall(l, "a", RunLen)
    \/ LogEnqueue
    \/ \E l \in Loggers : WriterPop(l)
    \/ \E l \in Loggers : WriterIdle(l)
    \/ \E l \in Loggers : WriterWake(l)
    \/ \E l \in Loggers : TimerFire(l)

SpecRun == InitRun /\ [][NextRun]_vars

\* One file-owning logger while file.write fails and recovers, coalescing off.
NextFail ==
    \/ \E p \in Paths, c \in {<<0, 0>>, <<MaxSizeN, 1>>} :
          lg = <<>> /\ LogInit("root", p, c[1], c[2], FALSE)
    \/ \E l \in Loggers : LogCall(l, "a", MaxEntries)
    \/ LogEnqueue
    \/ \E l \in Loggers : Stop(l, FALSE)
    \/ \E l \in Loggers : WriterPop(l)
    \/ \E l \in Loggers : WriterIdle(l)
    \/ \E l \in Loggers : WriterWake(l)
    \/ DiskFails
    \/ DiskRecovers

SpecFail == Init /\ [][NextFail]_vars

\* One logger with a writer thread, coalescing on: the writer, the timer thread
\* and a caller of stop(), each handler in its smaller steps.
InitEmit == InitWith({TRUE}, {CoalesceMax})

NextEmit ==
    \/ \E p \in Paths : lg = <<>> /\ LogInit("root", p, 0, 0, FALSE)
    \/ \E l \in Loggers, m \in Msgs : LogCall(l, m, MaxEntries)
    \/ LogEnqueue
    \/ \E l \in Loggers : WriterTake(l)
    \/ \E l \in Loggers : WriterLeave(l)
    \/ \E l \in Loggers : WriterFree(l) /\ queue[l] # <<>> /\ Head(queue[l]) = Sentinel
                            /\ WriterPop(l)
    \/ \E l \in Loggers : WriterFree(l) /\ WriterIdle(l)
    \/ \E l \in Loggers : WriterFree(l) /\ WriterWake(l)
    \/ \E l \in Loggers : TimerEnter(l)
    \/ \E l \in Loggers : TimerLeave(l)
    \/ \E l \in Loggers : StopBegin(l)
    \/ \E l \in Loggers : StopJoined(l)
    \/ \E l \in Loggers : StopEnd(l)

SpecEmit == InitEmit /\ [][NextEmit]_vars

\* Synchronous mode, one file-owning logger and several threads logging on it:
\* one of them may be inside __rotate while the others log.
InitRot == InitWith({FALSE}, {0})

NextRot ==
    \/ \E p \in Paths, c \in {<<0, 0>>, <<MaxSizeN, 1>>, <<MaxSizeN, 2>>} :
          lg = <<>> /\ LogInit("root", p, c[1], c[2], FALSE)
    \/ \E l \in Loggers, m \in Msgs : LogCall(l, m, MaxEntries)
    \/ \E l \in Loggers, m \in Msgs : LogRotateClose(l, m, MaxEntries)
    \/ \E l \in Loggers : RotateCallClose(l)
    \/ \E l \in Loggers : RotateReopen(l)

SpecRot == InitRot /\ [][NextRot]_vars

\* One logger, its level and the calls through the level gate.
NextLevel ==
    \/ \E p \in Paths : lg = <<>> /\ LogInit("root", p, 0, 0, FALSE)
    \/ \E l \in Loggers, level \in Levels : SetLevel(l, level)
    \/ \E l \in Loggers, meth \in Methods : LevelCall(l, meth, "a", LifeEntries)
    \/ \E l \in Loggers : Stop(l, FALSE)
    \/ LogEnqueue
    \/ \E l \in Loggers : WriterPop(l)
    \/ \E l \in Loggers : WriterIdle(l)
    \/ \E l \in Loggers : WriterWake(l)
    \/ \E l \in Loggers : TimerFire(l)

SpecLevel == InitStop /\ [][NextLevel]_vars

\* Construction with every (maxSize, backupCnt) pair, accepted or not.
CfgSizes == {-1, 0, MaxSizeN}
CfgCounts == -1..MaxBackupCnt

NextCfg ==
    \/ \E d \in Domains, p \in PathOrNone, ms \in CfgSizes, bc \in CfgCounts :
          LogInit(d, p, ms, bc, FALSE)
    \/ \E d \in Domains, p \in PathOrNone, ms \in CfgSizes, bc \in CfgCounts :
          GetLogger(d, p, ms, bc, FALSE)
    \/ PendJoin
    \/ \E l \in Loggers : WriterPop(l)
    \/ \E l \in Loggers : WriterIdle(l)
    \/ \E l \in Loggers : WriterWake(l)

SpecCfg == Init /\ [][NextCfg]_vars

---------------------------------------------------------------------------
\* What is in the files of a path, oldest first: name.N ... name.1, name
RECURSIVE CatFrom(_, _)
CatFrom(files, i) == IF i = 0 THEN <<>> ELSE files[i].data \o CatFrom(files, i - 1)

AllLines(p) == CatFrom(disk[p], MaxBackupCnt + 1)
Times(lines) == [i \in 1..Len(lines) |-> lines[i].time]
InFiles(p, t) == \E i \in 1..Len(AllLines(p)) : AllLines(p)[i].time = t
CallTimes == [t \in 1..clock |-> t]
Owner(l) == lg[l].nopen > 0
Live(l) == domains[lg[l].domain] = l \/ lg[l].thr \in {"run", "wait"}

\* C1: two loggers constructed with the same path, none stopped or unregistered:
\* once nothing is queued or buffered, the file holds one line for every log call
\* accepted on either logger, in the order of the calls.
C1_SharedFileHoldsEveryCall ==
    ( /\ Len(lg) = 2
      /\ call = NoCall
      /\ \A l \in DOMAIN lg : /\ lg[l].pathName = "app.log"
                              /\ lg[l].nstop = 0
                              /\ domains[lg[l].domain] = l
                              /\ lg[l].buf = <<>>
                              /\ queue[l] = <<>> )
    => Times(AllLines("app.log")) = CallTimes

\* C2: at most one open file handle per path, counting the loggers that are
\* registered or kept alive by their writer thread.
C2_OneHandlePerPath ==
    \A p \in Paths :
        Cardinality({l \in DOMAIN lg : Live(l) /\ lg[l].pathName = p /\ lg[l].F = "open"}) <= 1

\* C3: asynchronous mode, coalescing off: once the writer has ended on the stop
\* sentinel, every entry whose log call returned normally is in the file, unless
\* an immediate stop found it in the queue and discarded it.
C3_NoAcceptedEntryLost ==
    \A l \in DOMAIN lg :
        (lg[l].thr = "done" /\ sameMsgCountMax = 0)
        => \A t \in 1..clock :
              accepted[t] = l => (InFiles(lg[l].pathName, t) \/ t \in lg[l].cleared)

\* C4: after a graceful shutdown() of a file-owning logger has returned, in either
\* mode: the buffer is empty, the file handle is closed, the domain is no longer
\* registered to the logger and (synchronous mode, coalescing off) every accepted
\* entry is in the file or a backup.
C4_ShutdownLeavesNothingBehind ==
    \A l \in DOMAIN lg :
        (lg[l].shut /\ Owner(l) /\ lg[l].cleared = {})
        => /\ lg[l].buf = <<>>
           /\ lg[l].F # "open"
           /\ domains[lg[l].domain] # l
           /\ (~useThreads /\ sameMsgCountMax = 0)
              => \A t \in 1..clock : accepted[t] = l => InFiles(lg[l].pathName, t)

\* C5: once a re-initialization of a registered domain has returned, the logger
\* it replaced is stopped, its writer has ended and its file is closed, and the
\* re-initializing call did not raise.
C5_ReinitStopsThePrevious ==
    /\ ~(raised.op \in {"LogInit", "GetLogger"} /\ raised.lg # 0)
    /\ pend = NoPend
       => \A l \in DOMAIN lg :
             lg[l].replaced => /\ lg[l].stopped
                               /\ lg[l].thr \notin {"run", "wait"}
                               /\ lg[l].F # "open"

\* a stop() or shutdown() on logger l that is not the first teardown call on it
SecondTeardown(l) == lg[l].nstop >= 1 /\ lg'[l].nstop = lg[l].nstop + 1

C7_SyncFileMatchesCalls ==
    \A l \in DOMAIN lg :
        (~useThreads /\ Owner(l)) => Times(AllLines(lg[l].pathName)) = CallTimes

\* everything logger l has emitted, written or still buffered
Emitted(l) == AllLines(lg[l].pathName) \o lg[l].buf
\* the run is over: every call returned and was processed, no timer is running
RunOver(l) ==
    /\ clock = RunLen
    /\ call = NoCall
    /\ queue[l] = <<>>
    /\ lg[l].timer # "armed"

\* C8: sameMsgCountMax = RunMax and RunLen identical entries, then silence: whatever
\* the interleaving of writer and timer, exactly one line carries the prefix
\* "RunMax times: ", no other line has a prefix, and RunLen - RunMax + 2 lines
\* are flushed in all (the first entry, the prefixed line, the entry that ended
\* the first cycle, and the timer's flush of the second cycle).
C8_RunCoalescesTheSameWay ==
    \A l \in DOMAIN lg :
        RunOver(l)
        => /\ Len(Emitted(l)) = RunLen - RunMax + 2
           /\ Cardinality({i \in 1..Len(Emitted(l)) : Emitted(l)[i].cnt > 0}) = 1
           /\ \A i \in 1..Len(Emitted(l)) : Emitted(l)[i].cnt \in {0, RunMax}

\* C9: maxSize = N and backupCnt = 2: once more than 2N bytes are in the files
\* of the path, name, name.1 and name.2 all exist.
C9_ThreeFilesAfterTwoN ==
    \A l \in DOMAIN lg :
        ( /\ Owner(l)
          /\ lg[l].maxSize = MaxSizeN
          /\ lg[l].backupCnt = 2
          /\ SumSizes(AllLines(lg[l].pathName)) > 2 * MaxSizeN )
        => \A i \in 1..3 : disk[lg[l].pathName][i].ex

\* C10: a logger with a shipping client has handed to client.log, once each and
\* in order, every entry that _logMessage has processed.
C10_EveryEntryShipped ==
    \A l \in DOMAIN lg : lg[l].client => lg[l].sent = lg[l].done

\* the constructor call of LogInit or GetLogger is reached with (ms, bc)
Constructs(ms, bc) ==
    \E d \in Domains, p \in PathOrNone :
        \/ LogInit(d, p, ms, bc, FALSE)
        \/ /\ domains[d] = Absent
           /\ \E x \in Domains : domains[x] # Absent
           /\ GetLogger(d, p, ms, bc, FALSE)

\* C11 as claimed: constructing a Logger raises the configuration error exactly
\* when maxSize or backupCnt is negative or maxSize is zero with backupCnt nonzero.
C11_RejectsZeroSizeWithBackups ==
    [][\A ms \in CfgSizes, bc \in CfgCounts :
          Constructs(ms, bc)
          => (raised'.exc = "ValueError" <=> (ms < 0 \/ bc < 0 \/ (ms = 0 /\ bc # 0)))]_vars

\* C11 as amended: constructing a Logger raises the configuration error exactly
\* when maxSize or backupCnt is negative or maxSize is positive with backupCnt
\* zero; every other pair constructs and registers a logger.
C11_RejectsSizeWithoutBackups ==
    [][\A ms \in CfgSizes, bc \in CfgCounts :
          Constructs(ms, bc)
          => IF ms < 0 \/ bc < 0 \/ (ms > 0 /\ bc = 0)
             THEN raised'.exc = "ValueError" /\ Len(lg') = Len(lg)
             ELSE raised' = NoRaise /\ Len(lg') = Len(lg) + 1]_vars

\* C11 witness: a logger with maxSize zero and backups was constructed, and the
\* construction that followed was refused.
C11_Witness ==
    /\ raised.exc = "ValueError"
    /\ raised.op = "LogInit"
    /\ \E l \in DOMAIN lg : lg[l].maxSize = 0 /\ lg[l].backupCnt > 0

\* C12: a debug/info/warning/error/fatal/critical/exception call whose level is
\* below the logger's level, the level being the one the last setLevel gave it,
\* raises nothing and changes nothing: queue, events, buffer, sizes, coalescing
\* state, timer, files and clock stay as they were (only the count of gated
\* calls the model keeps moves), also on a stopped logger.
C12_BelowLevelIsNoOp ==
    [][\A l \in DOMAIN lg, meth \in Methods :
          (LevelCall(l, meth, "a", LifeEntries) /\ MethodLevel(meth) < lg[l].level)
          => /\ lg' = [lg EXCEPT ![l].ngated = @ + 1]
             /\ raised' = NoRaise
             /\ UNCHANGED <<queue, evtQueue, evtRotate, disk, call, clock, accepted,
                            domains>>]_vars

\* C12 witness: setLevel has moved the threshold: an entry got through the gate
\* and calls were gated, on a logger that is stopped by now.
C12_Witness ==
    \E l \in DOMAIN lg :
        /\ lg[l].level \in {INFO, WARNING, ERROR}
        /\ lg[l].ngated = MaxGated
        /\ lg[l].stopped
        /\ clock > 0
        /\ accepted[clock] = l

\* C13: the writer thread never ends on a failure: whatever write fails, while
\* formatting, flushing on an empty queue, flushing on the sentinel or rotating,
\* the thread goes on; it ends only by taking the stop sentinel to its break.
C13_WriterSurvivesFailures ==
    \A l \in DOMAIN lg : lg[l].thr # "dead"

\* the lines of log call t of logger l are somewhere: queued, buffered or written
Held(l, t) ==
    \/ InFiles(lg[l].pathName, t)
    \/ \E i \in 1..Len(lg[l].buf) : lg[l].buf[i].time = t
    \/ \E i \in 1..Len(queue[lg[l].common]) : queue[lg[l].common][i].time = t

\* C14: a failing file write loses nothing: the lines of every accepted log call
\* are in the file, or still in the buffer (or the queue) for the next flush.
C14_FailedWriteKeepsLines ==
    \A l \in DOMAIN lg :
        Owner(l) => \A t \in 1..clock : accepted[t] = l => Held(l, t)

\* the timer of logger l fires and flushes the stored entry with its repeat count
FiresWithCount(l) ==
    TimerFire(l)
    => /\ Emitted(l)' = Append(Emitted(l),
                               FormatLine(lg[l].lastKey, lg[l].lastEntry, lg[l].lastCnt))
       /\ lg'[l].timer = "None"

\* no entry stands twice in what logger l has emitted
EmittedOnce(l) ==
    \A i, j \in 1..Len(Emitted(l)) : Emitted(l)[i].time = Emitted(l)[j].time => i = j

\* C15: when the coalescing timer fires, the entry stored last is flushed with
\* the prefix "N times: ", N the repeat count, and no timer handle stays set;
\* whatever is logged afterwards, no entry is ever emitted a second time.
C15_TimerFlushesCountOnce ==
    [][\A l \in DOMAIN lg : FiresWithCount(l) /\ EmittedOnce(l)']_vars

\* C16: once shutdown() of a file-owning logger has returned, graceful or
\* immediate, in either mode, no coalescing run is left pending: no timer is
\* armed and no repeat count above 1 waits to be written.
C16_NoRunPendingAfterShutdown ==
    \A l \in DOMAIN lg :
        (lg[l].shut /\ Owner(l)) => (lg[l].timer # "armed" /\ lg[l].lastCnt = 1)

\* C17: at no time are two threads inside _logMessage of one logger, be they the
\* writer thread, the timer thread or the thread that called stop().
C17_OneThreadInLogMessage ==
    \A l \in DOMAIN lg : Cardinality(lg[l].emit) <= 1

\* C18: no file write, no flush of pending lines is executed on a logger's file
\* between the close and the reopen of a rotation of that file.
C18_NoWriteInsideRotation ==
    \A l \in DOMAIN lg : ~lg[l].torn

\* C19: asynchronous mode, maxSize > 0: a rotation that is due never stays
\* pending with the writer blocked: the writer does not wait in evtQueue.wait()
\* with the rotate event set and the wake event clear.
C19_DueRotationWakesWriter ==
    \A l \in DOMAIN lg :
        (useThreads /\ lg[l].maxSize > 0 /\ lg[l].thr = "wait" /\ evtRotate[l])
        => evtQueue[l]

\* C20: two loggers share a path and its queue; one has been stopped or shut
\* down, the other is registered and not stopped: then exactly one handle is open
\* on the path, in asynchronous mode the writer thread of the file is alive, and
\* no accepted entry of the logger that was not stopped has been discarded.
C20_StopLeavesTheSharedFile ==
    \A l, k \in DOMAIN lg :
        ( /\ l # k
          /\ lg[l].common = lg[k].common
          /\ lg[k].stopped
          /\ ~lg[l].stopped
          /\ domains[lg[l].domain] = l )
        => /\ Cardinality({o \in DOMAIN lg : /\ lg[o].common = lg[l].common
                                              /\ lg[o].F = "open"}) = 1
           /\ useThreads => \E o \in DOMAIN lg : /\ lg[o].common = lg[l].common
                                                  /\ lg[o].thr \in {"run", "wait"}
           /\ Owner(l) => \A t \in 1..clock : accepted[t] = l => Held(l, t)

====
